---- MODULE Spec2Model ----
(***************************************************************************)
(* Model of the fileset compaction code of                                 *)
(* src/internal/storage/fileset/compaction.go:                             *)
(*   - Storage.Compact, the sequential leveled compaction (Spec),          *)
(*   - DistributedCompactor.Compact / shardedCompact, the fan-in tree      *)
(*     over a batch worker (SpecDC; SpecDCCancel with a ctx that can be    *)
(*     cancelled),                                                         *)
(*   - Storage.IsCompacted (SpecIC),                                       *)
(*   - the three of them as one core (SpecCore),                           *)
(* and of TransactionEnv.WithTransaction of package transactionenv with    *)
(* its direct and append transactions (SpecTxn).                           *)
(* Indices returned by indexOfCompacted are the 0-based indices of the Go  *)
(* code; TLA+ sequences are 1-based, so Go's inputs[i] is inputs[i + 1].   *)
(***************************************************************************)
EXTENDS Integers, Sequences, FiniteSets, TLC

(***************************************************************************)
(* Bounds of the model.                                                    *)
(***************************************************************************)
\* largest SizeBytes of a primitive layer
MaxSize == 2
\* longest id list a caller passes to Storage.Compact
MaxLen == 2
\* largest levelFactor of a Storage
MaxFactor == 2

\* longest id list a caller passes to DistributedCompactor.Compact
MaxIds == 10
\* largest maxFanIn of a DistributedCompactor
MaxFanIn == 3
\* largest number of path ranges Shard visits in one call
MaxShards == 3

\* largest id of a transaction carried by an RPC context
MaxTxn == 2
\* most write operations one WithTransaction call's callbacks make in all
MaxWrites == 2
\* most times the STM runs its callback again after a conflict
MaxRetries == 1

Sizes == 0..MaxSize
LevelFactors == 1..MaxFactor

VARIABLES
    \* ---- Storage (sequential compaction) ----
    store,        \* the metadata store: store[id] is the Metadata stored under id
    levelFactor,  \* Storage.levelFactor
    origIds,      \* the id list the caller passed to the outermost Compact
    ids,          \* the ids parameter of the current Compact invocation
    pc,           \* "call": a Compact invocation is about to run; "done"; "error"
    flat,         \* ids after line 75 of the last invocation that ran
    inputs,       \* the SizeBytes of the layers of the last invocation (line 79)
    idx,          \* i of the last invocation (line 83)
    mergeArg,     \* the argument of the last Merge call
    composeArg,   \* the argument of the last Compose call
    mergeCalls,   \* number of Merge calls made
    composeCalls, \* number of Compose calls made
    result,       \* the id returned (0 when none)
    err,          \* the error returned ("" when none)
    \* ---- DistributedCompactor ----
    maxFanIn,     \* DistributedCompactor.maxFanIn
    dcIds,        \* the id list the caller passed to DistributedCompactor.Compact
    stack,        \* the call stack: one frame per active Compact invocation
    lastRanges,   \* the path ranges the last Shard call visited
    lastBatch,    \* the tasks handed to the last workerFunc call
    concatArg,    \* the argument of the last Concat call
    shardCalls,   \* number of Shard calls made
    workerCalls,  \* number of workerFunc calls made
    concatCalls,  \* number of Concat calls made
    dcResult,     \* what the root call returned: [val, err], or NoReturn
    covers,       \* for each id, the caller's ids whose content it stands for, in order
    cancelled     \* the ambient cancellation signal (ctx) has been raised

storageVars == <<store, levelFactor, origIds, ids, pc, flat, inputs, idx,
                 mergeArg, composeArg, mergeCalls, composeCalls, result, err>>

dcVars == <<maxFanIn, dcIds, stack, lastRanges, lastBatch, concatArg,
            shardCalls, workerCalls, concatCalls, dcResult, covers, cancelled>>

\* Storage.IsCompacted: one call on the store.
VARIABLES
    icId,         \* the id the call was given
    icPc,         \* "idle", "call" while the call runs, "done" once it returned
    icRet,        \* what the call returned: [val, err], err = "" for nil
    icReads       \* the ids whose metadata the call has read

icVars == <<icId, icPc, icRet, icReads>>

\* TransactionEnv.WithTransaction: one call.
VARIABLES
    ctxTxn,       \* what the RPC context holds: a transaction id, NilTxn or BadCtx
    txnPc,        \* "idle", "start", "cb" (in the callback), "commit", "done", "panic"
    txnMode,      \* the Transaction the callback was given: "append", "direct" or "none"
    stmOpened,    \* number of col.NewSTM calls made
    cbRuns,       \* number of times the callback was invoked
    retries,      \* number of times the STM ran its callback again
    writeLog,     \* the write operations the callback invoked, in order
    appendLog,    \* the AppendRequest calls made on the transaction server
    directLog,    \* the *InTransaction calls made on the pfs and auth servers
    deferRuns,    \* number of pfsDefer.Run calls made
    txnErr        \* the error WithTransaction returned ("" for nil)

txnVars == <<ctxTxn, txnPc, txnMode, stmOpened, cbRuns, retries, writeLog,
             appendLog, directLog, deferRuns, txnErr>>

\* The state of the operations outside the two compactors.
restVars == <<icVars, txnVars>>

vars == <<storageVars, dcVars, restVars>>

\* No IsCompacted call is running.
ICIdle ==
    /\ icId = 0
    /\ icPc = "idle"
    /\ icRet = [val |-> FALSE, err |-> ""]
    /\ icReads = {}

\* client.GetTransaction gives no transaction: none is active.
NilTxn == 0
\* client.GetTransaction fails on this context.
BadCtx == 0 - 1

\* No WithTransaction call is running.
TxnIdle ==
    /\ ctxTxn = NilTxn
    /\ txnPc = "idle"
    /\ txnMode = "none"
    /\ stmOpened = 0
    /\ cbRuns = 0
    /\ retries = 0
    /\ writeLog = <<>>
    /\ appendLog = <<>>
    /\ directLog = <<>>
    /\ deferRuns = 0
    /\ txnErr = ""

RestIdle == ICIdle /\ TxnIdle

(***************************************************************************)
(* Metadata: Primitive, Composite, or no variant set (empty).              *)
(***************************************************************************)
Primitive(size) == [kind |-> "prim", size |-> size, ptrs |-> <<>>]
Composite(ptrs) == [kind |-> "comp", size |-> 0, ptrs |-> ptrs]
EmptyMd == [kind |-> "empty", size |-> 0, ptrs |-> <<>>]

\* The ids stored in st.
IDs(st) == 1..Len(st)

\* The outcome of an operation that returns (value, error).
Ok(v) == [ok |-> TRUE, val |-> v]
Failed == [ok |-> FALSE, val |-> <<>>]

\* Flatten: expands every composite, transitively and in place, until only
\* primitive ids remain; fails on an id whose metadata has no variant.
RECURSIVE Flatten(_, _)
Flatten(st, refs) ==
    IF refs = <<>> THEN Ok(<<>>)
    ELSE LET id == Head(refs)
             md == st[id]
             first == IF md.kind = "prim" THEN Ok(<<id>>)
                      ELSE IF md.kind = "comp" THEN Flatten(st, md.ptrs)
                      ELSE Failed
             rest == Flatten(st, Tail(refs))
         IN IF first.ok /\ rest.ok THEN Ok(first.val \o rest.val) ELSE Failed

\* getPrimitiveBatch: the primitive read under each id, in order (here the
\* SizeBytes of each, the only field the compaction decision reads).
getPrimitiveBatch(st, primIds) == [k \in 1..Len(primIds) |-> st[primIds[k]].size]

\* indexOfCompacted with a loop bound that skips the last adjacent pair.
RECURSIVE indexLoopShort(_, _, _)
indexLoopShort(factor, layers, i) ==
    IF i < Len(layers) - 2
    THEN IF layers[i + 1] < layers[i + 2] * factor
         THEN i
         ELSE indexLoopShort(factor, layers, i + 1)
    ELSE Len(layers)

indexOfCompactedShort(factor, layers) == indexLoopShort(factor, layers, 0)

\* indexOfCompacted comparing with <= where the code compares with <.
RECURSIVE indexLoopLe(_, _, _)
indexLoopLe(factor, layers, i) ==
    IF i < Len(layers) - 1
    THEN IF layers[i + 1] <= layers[i + 2] * factor
         THEN i
         ELSE indexLoopLe(factor, layers, i + 1)
    ELSE Len(layers)

indexOfCompactedLe(factor, layers) == indexLoopLe(factor, layers, 0)

\* indexOfCompacted returning the right index of the violating pair.
RECURSIVE indexLoopRight(_, _, _)
indexLoopRight(factor, layers, i) ==
    IF i < Len(layers) - 1
    THEN IF layers[i + 1] < layers[i + 2] * factor
         THEN i + 1
         ELSE indexLoopRight(factor, layers, i + 1)
    ELSE Len(layers)

indexOfCompactedRight(factor, layers) == indexLoopRight(factor, layers, 0)

\* The loop of indexOfCompacted, from iteration i on.
RECURSIVE indexLoop(_, _, _)
indexLoop(factor, layers, i) ==
    IF i < Len(layers) - 1
    THEN IF layers[i + 1] < layers[i + 2] * factor
         THEN i
         ELSE indexLoop(factor, layers, i + 1)
    ELSE Len(layers)

indexOfCompacted(factor, layers) == indexLoop(factor, layers, 0)

\* isCompacted that looks at the first pair of layers only.
isCompactedFirstPair(factor, layers) ==
    indexOfCompacted(factor, layers) >= 1 \/ Len(layers) <= 1

\* isCompacted that wants at least one layer.
isCompactedNonEmpty(factor, layers) ==
    Len(layers) > 0 /\ indexOfCompacted(factor, layers) = Len(layers)

isCompacted(factor, layers) == indexOfCompacted(factor, layers) = Len(layers)

\* ids[i+1:], a suffix that leaves layer i out of the merge.
MergeSuffixAfter(list, i) == SubSeq(list, i + 2, Len(list))

\* ids[i:], the suffix handed to Merge (line 88).
MergeSuffix(list, i) == SubSeq(list, i + 1, Len(list))

\* ids[:i+1] followed by the merged id: layer i is kept beside the merge.
Ids2Keep(list, i, merged) == SubSeq(list, 1, i + 1) \o <<merged>>

\* ids2 of lines 93-95: ids[:i] followed by the merged id.
Ids2(list, i, merged) == SubSeq(list, 1, i) \o <<merged>>

\* Compose handed the list the invocation was called with.
ComposeArgPassed(passed, flattened) == passed

\* The list handed to Compose at line 85: ids, which line 75 has reassigned
\* to the flattened list.
ComposeArg(passed, flattened) == flattened

\* Compose: a new composite pointing at the references it is given.
Compose(list) == Composite(list)

\* Merge: a new primitive holding the combined content, of some size.
Merge(size) == Primitive(size)

(***************************************************************************)
(* Storage.Compact.  One invocation runs lines 75-83 and then takes one of *)
(* its exits: an error of Flatten / getPrimitiveBatch, Compose (success or *)
(* failure), or Merge (failure, or success followed by the recursive call).*)
(***************************************************************************)
\* What lines 75-83 compute in the current invocation.
CurFlat == Flatten(store, ids)
CurInputs == getPrimitiveBatch(store, CurFlat.val)
CurIdx == indexOfCompacted(levelFactor, CurInputs)

\* Lines 75-82: Flatten or getPrimitiveBatch fails (an unreadable reference, or
\* a lookup error of the store).
CompactReadFail ==
    /\ pc = "call"
    /\ \E lookupError \in BOOLEAN :
         /\ lookupError \/ ~CurFlat.ok
         /\ err' = IF CurFlat.ok THEN "lookup" ELSE "flatten"
    /\ pc' = "error"
    /\ UNCHANGED <<store, levelFactor, origIds, ids, flat, inputs, idx, mergeArg,
                   composeArg, mergeCalls, composeCalls, result>>
    /\ UNCHANGED <<dcVars, restVars>>

\* Lines 84-86: already compacted, Compose succeeds and its id is returned.
CompactCompose ==
    /\ pc = "call"
    /\ CurFlat.ok
    /\ CurIdx = Len(CurInputs)
    /\ flat' = CurFlat.val
    /\ inputs' = CurInputs
    /\ idx' = CurIdx
    /\ composeArg' = ComposeArg(ids, CurFlat.val)
    /\ composeCalls' = composeCalls + 1
    /\ store' = Append(store, Compose(ComposeArg(ids, CurFlat.val)))
    /\ result' = Len(store) + 1
    /\ pc' = "done"
    /\ UNCHANGED <<levelFactor, origIds, ids, mergeArg, mergeCalls, err>>
    /\ UNCHANGED <<dcVars, restVars>>

\* Lines 84-86: already compacted, Compose fails.
CompactComposeFail ==
    /\ pc = "call"
    /\ CurFlat.ok
    /\ CurIdx = Len(CurInputs)
    /\ flat' = CurFlat.val
    /\ inputs' = CurInputs
    /\ idx' = CurIdx
    /\ composeArg' = ComposeArg(ids, CurFlat.val)
    /\ composeCalls' = composeCalls + 1
    /\ err' = "compose"
    /\ pc' = "error"
    /\ UNCHANGED <<store, levelFactor, origIds, ids, mergeArg, mergeCalls, result>>
    /\ UNCHANGED <<dcVars, restVars>>

\* A merge that writes the merged primitive over the last input layer.
CompactMergeInPlace ==
    /\ pc = "call"
    /\ CurFlat.ok
    /\ CurIdx # Len(CurInputs)
    /\ flat' = CurFlat.val
    /\ inputs' = CurInputs
    /\ idx' = CurIdx
    /\ mergeArg' = MergeSuffix(CurFlat.val, CurIdx)
    /\ mergeCalls' = mergeCalls + 1
    /\ \E size \in Sizes :
         store' = [store EXCEPT ![CurFlat.val[Len(CurFlat.val)]] = Merge(size)]
    /\ ids' = Ids2(CurFlat.val, CurIdx, CurFlat.val[Len(CurFlat.val)])
    /\ pc' = "call"
    /\ UNCHANGED <<levelFactor, origIds, composeArg, composeCalls, result, err>>
    /\ UNCHANGED <<dcVars, restVars>>

\* Lines 87-96: Merge of ids[i:] succeeds with a new primitive of some size,
\* and Compact is called on ids2.
CompactMerge ==
    /\ pc = "call"
    /\ CurFlat.ok
    /\ CurIdx # Len(CurInputs)
    /\ flat' = CurFlat.val
    /\ inputs' = CurInputs
    /\ idx' = CurIdx
    /\ mergeArg' = MergeSuffix(CurFlat.val, CurIdx)
    /\ mergeCalls' = mergeCalls + 1
    /\ \E size \in Sizes : store' = Append(store, Merge(size))
    /\ ids' = Ids2(CurFlat.val, CurIdx, Len(store) + 1)
    /\ pc' = "call"
    /\ UNCHANGED <<levelFactor, origIds, composeArg, composeCalls, result, err>>
    /\ UNCHANGED <<dcVars, restVars>>

\* Lines 88-91: Merge fails.
CompactMergeFail ==
    /\ pc = "call"
    /\ CurFlat.ok
    /\ CurIdx # Len(CurInputs)
    /\ flat' = CurFlat.val
    /\ inputs' = CurInputs
    /\ idx' = CurIdx
    /\ mergeArg' = MergeSuffix(CurFlat.val, CurIdx)
    /\ mergeCalls' = mergeCalls + 1
    /\ err' = "merge"
    /\ pc' = "error"
    /\ UNCHANGED <<store, levelFactor, origIds, ids, composeArg, composeCalls, result>>
    /\ UNCHANGED <<dcVars, restVars>>

(***************************************************************************)
(* The stores a call starts from: three primitives of any sizes, a         *)
(* composite with an empty pointer list, a composite over two primitives   *)
(* and the empty composite, a composite nesting that composite, and a      *)
(* fileset with no variant.                                                *)
(***************************************************************************)
InitStores ==
    { << Primitive(s[1]), Primitive(s[2]), Primitive(s[3]),
         Composite(<<>>), Composite(<<2, 4, 3>>), Composite(<<1, 5>>), EmptyMd >> :
      s \in [1..3 -> Sizes] }

\* Lists of at most n ids of st, in increasing order of id.
IdLists(st, n) ==
    { l \in UNION { [1..k -> IDs(st)] : k \in 0..n } :
        \A a, b \in 1..Len(l) : a < b => l[a] < l[b] }

\* No DistributedCompactor call is running.
DCIdle ==
    /\ maxFanIn = 1
    /\ dcIds = <<>>
    /\ stack = <<>>
    /\ lastRanges = <<>>
    /\ lastBatch = <<>>
    /\ concatArg = <<>>
    /\ shardCalls = 0
    /\ workerCalls = 0
    /\ concatCalls = 0
    /\ dcResult = [val |-> 0, err |-> "idle"]
    /\ covers = <<>>
    /\ cancelled = FALSE

\* A caller is about to run Storage.Compact(origIds) on some store.
StorageInit ==
    /\ store \in InitStores
    /\ levelFactor \in LevelFactors
    /\ origIds \in IdLists(store, MaxLen)
    /\ ids = origIds
    /\ pc = "call"
    /\ flat = <<>>
    /\ inputs = <<>>
    /\ idx = 0
    /\ mergeArg = <<>>
    /\ composeArg = <<>>
    /\ mergeCalls = 0
    /\ composeCalls = 0
    /\ result = 0
    /\ err = ""

Init == StorageInit /\ DCIdle /\ RestIdle

Next ==
    \/ CompactReadFail
    \/ CompactCompose
    \/ CompactComposeFail
    \/ CompactMerge
    \/ CompactMergeFail

Spec == Init /\ [][Next]_vars

\* The calls of Compact are synchronous: an invocation that can run does run.
FairSpec == Spec /\ WF_vars(Next)

(***************************************************************************)
(* DistributedCompactor.  A frame of the call stack is one invocation of   *)
(* Compact (which, in the base case, continues as shardedCompact):         *)
(*   pc "entry"  at line 131                                               *)
(*      "size"   at the head of the child-size loop, line 135              *)
(*      "loop"   at the head of the group loop, line 139                   *)
(*      "child"  waiting for the child call of line 144                    *)
(*      "final"  waiting for the call of line 150                          *)
(*      "shard"  shardedCompact about to call Shard, line 155              *)
(*      "work"   about to call workerFunc, line 164                        *)
(*      "check"  at the length check, line 168                             *)
(*      "ret"    returning val (an id) or err                              *)
(***************************************************************************)
\* Fileset ids as the compactor sees them: opaque handles.
InputId(k) == [kind |-> "input", n |-> k, j |-> 0]
ShardResultId(batch, k) == [kind |-> "shard", n |-> batch, j |-> k]
ConcatId(k) == [kind |-> "concat", n |-> k, j |-> 0]
NoId == [kind |-> "none", n |-> 0, j |-> 0]

NoReturn == [val |-> NoId, err |-> "running"]

Frame(list) ==
    [ids |-> list, pc |-> "entry", childSize |-> 0, start |-> 0,
     results |-> <<>>, tasks |-> <<>>, wres |-> <<>>, val |-> NoId, err |-> ""]

Top == stack[Len(stack)]
SetTop(f) == [stack EXCEPT ![Len(stack)] = f]
Push(f, g) == Append(SetTop(f), g)

\* A base-case test that lets one id too many through.
IsBaseCaseWide(n, fanIn) == n <= fanIn + 1

\* Line 131: the base case.
IsBaseCase(n, fanIn) == n <= fanIn

\* Line 135: the condition of the child-size loop (Go's integer division).
SizeLoopCond(n, childSize, fanIn) == (n \div childSize) > fanIn

\* Lines 140-143: the end of the group that starts at start.
GroupEnd(start, childSize, n) ==
    IF start + childSize > n THEN n ELSE start + childSize

\* ids[start:end].
Slice(list, start, end) == SubSeq(list, start + 1, end)

\* The task list without the task of the last path range.
BuildTasksDropLast(list, ranges) ==
    [k \in 1..(Len(ranges) - 1) |-> [Inputs |-> list, PathRange |-> ranges[k]]]

\* Lines 154-160: one task per path range visited, each with the full id list.
BuildTasks(list, ranges) ==
    [k \in 1..Len(ranges) |-> [Inputs |-> list, PathRange |-> ranges[k]]]

\* A length check that only notices missing results.
CountMismatchFewer(results, tasks) == Len(results) < Len(tasks)

\* Line 168: the worker returned a different number of results than tasks.
CountMismatch(results, tasks) == Len(results) # Len(tasks)

\* The caller's ids that a list of ids stands for, in order.
RECURSIVE CoversAll(_)
CoversAll(list) ==
    IF list = <<>> THEN <<>> ELSE covers[Head(list)] \o CoversAll(Tail(list))

\* Line 131-132: the base case continues as shardedCompact.
DCBase ==
    /\ stack # <<>>
    /\ Top.pc = "entry"
    /\ IsBaseCase(Len(Top.ids), maxFanIn)
    /\ stack' = SetTop([Top EXCEPT !.pc = "shard"])
    /\ UNCHANGED <<maxFanIn, dcIds, lastRanges, lastBatch, concatArg,
                   shardCalls, workerCalls, concatCalls, dcResult>>
    /\ UNCHANGED <<covers, cancelled>>
    /\ UNCHANGED <<storageVars, restVars>>

\* Lines 131-134: the recursive case starts with childSize = maxFanIn.
DCRecurse ==
    /\ stack # <<>>
    /\ Top.pc = "entry"
    /\ ~IsBaseCase(Len(Top.ids), maxFanIn)
    /\ stack' = SetTop([Top EXCEPT !.pc = "size", !.childSize = maxFanIn])
    /\ UNCHANGED <<maxFanIn, dcIds, lastRanges, lastBatch, concatArg,
                   shardCalls, workerCalls, concatCalls, dcResult>>
    /\ UNCHANGED <<covers, cancelled>>
    /\ UNCHANGED <<storageVars, restVars>>

\* Lines 135-137: one iteration of the child-size loop.
DCGrow ==
    /\ stack # <<>>
    /\ Top.pc = "size"
    /\ SizeLoopCond(Len(Top.ids), Top.childSize, maxFanIn)
    /\ stack' = SetTop([Top EXCEPT !.childSize = Top.childSize * maxFanIn])
    /\ UNCHANGED <<maxFanIn, dcIds, lastRanges, lastBatch, concatArg,
                   shardCalls, workerCalls, concatCalls, dcResult>>
    /\ UNCHANGED <<covers, cancelled>>
    /\ UNCHANGED <<storageVars, restVars>>

\* Lines 135, 138-139: the child-size loop exits; results is empty, start is 0.
DCSized ==
    /\ stack # <<>>
    /\ Top.pc = "size"
    /\ ~SizeLoopCond(Len(Top.ids), Top.childSize, maxFanIn)
    /\ stack' = SetTop([Top EXCEPT !.pc = "loop", !.start = 0, !.results = <<>>])
    /\ UNCHANGED <<maxFanIn, dcIds, lastRanges, lastBatch, concatArg,
                   shardCalls, workerCalls, concatCalls, dcResult>>
    /\ UNCHANGED <<covers, cancelled>>
    /\ UNCHANGED <<storageVars, restVars>>

\* Lines 139-144: the next group is compacted by a child call.
DCChild ==
    /\ stack # <<>>
    /\ Top.pc = "loop"
    /\ Top.start < Len(Top.ids)
    /\ stack' = Push([Top EXCEPT !.pc = "child"],
                     Frame(Slice(Top.ids, Top.start,
                                 GroupEnd(Top.start, Top.childSize, Len(Top.ids)))))
    /\ UNCHANGED <<maxFanIn, dcIds, lastRanges, lastBatch, concatArg,
                   shardCalls, workerCalls, concatCalls, dcResult>>
    /\ UNCHANGED <<covers, cancelled>>
    /\ UNCHANGED <<storageVars, restVars>>

\* Lines 139, 150: every group is compacted; Compact is called on the results.
DCFinal ==
    /\ stack # <<>>
    /\ Top.pc = "loop"
    /\ Top.start >= Len(Top.ids)
    /\ stack' = Push([Top EXCEPT !.pc = "final"], Frame(Top.results))
    /\ UNCHANGED <<maxFanIn, dcIds, lastRanges, lastBatch, concatArg,
                   shardCalls, workerCalls, concatCalls, dcResult>>
    /\ UNCHANGED <<covers, cancelled>>
    /\ UNCHANGED <<storageVars, restVars>>

\* Lines 154-161: Shard visits some number of path ranges, in ascending order,
\* and the callback appends one task for each.
DCShard ==
    /\ stack # <<>>
    /\ Top.pc = "shard"
    /\ \E k \in 0..MaxShards :
         LET ranges == [r \in 1..k |-> r] IN
         /\ lastRanges' = ranges
         /\ stack' = SetTop([Top EXCEPT !.pc = "work",
                                        !.tasks = BuildTasks(Top.ids, ranges)])
    /\ shardCalls' = shardCalls + 1
    /\ UNCHANGED <<maxFanIn, dcIds, lastBatch, concatArg, workerCalls,
                   concatCalls, dcResult>>
    /\ UNCHANGED <<covers, cancelled>>
    /\ UNCHANGED <<storageVars, restVars>>

\* Lines 155-163: Shard fails.
DCShardFail ==
    /\ stack # <<>>
    /\ Top.pc = "shard"
    /\ stack' = SetTop([Top EXCEPT !.pc = "ret", !.err = "shard"])
    /\ shardCalls' = shardCalls + 1
    /\ UNCHANGED <<maxFanIn, dcIds, lastRanges, lastBatch, concatArg, workerCalls,
                   concatCalls, dcResult>>
    /\ UNCHANGED <<covers, cancelled>>
    /\ UNCHANGED <<storageVars, restVars>>

\* Line 164: workerFunc returns a list of ids, of any length up to one more
\* than the number of tasks.
DCWork ==
    /\ stack # <<>>
    /\ Top.pc = "work"
    /\ lastBatch' = Top.tasks
    /\ workerCalls' = workerCalls + 1
    /\ \E n \in 0..(Len(Top.tasks) + 1) :
         stack' = SetTop([Top EXCEPT !.pc = "check",
                            !.wres = [k \in 1..n |-> ShardResultId(workerCalls + 1, k)]])
    /\ UNCHANGED <<maxFanIn, dcIds, lastRanges, concatArg, shardCalls,
                   concatCalls, dcResult>>
    /\ UNCHANGED <<covers, cancelled>>
    /\ UNCHANGED <<storageVars, restVars>>

\* Lines 164-167: workerFunc fails.
DCWorkFail ==
    /\ stack # <<>>
    /\ Top.pc = "work"
    /\ lastBatch' = Top.tasks
    /\ workerCalls' = workerCalls + 1
    /\ stack' = SetTop([Top EXCEPT !.pc = "ret", !.err = "worker"])
    /\ UNCHANGED <<maxFanIn, dcIds, lastRanges, concatArg, shardCalls,
                   concatCalls, dcResult>>
    /\ UNCHANGED <<covers, cancelled>>
    /\ UNCHANGED <<storageVars, restVars>>

\* Lines 168-170: the result count differs from the task count.
DCMismatch ==
    /\ stack # <<>>
    /\ Top.pc = "check"
    /\ CountMismatch(Top.wres, Top.tasks)
    /\ stack' = SetTop([Top EXCEPT !.pc = "ret", !.err = "mismatch"])
    /\ UNCHANGED <<maxFanIn, dcIds, lastRanges, lastBatch, concatArg,
                   shardCalls, workerCalls, concatCalls, dcResult>>
    /\ UNCHANGED <<covers, cancelled>>
    /\ UNCHANGED <<storageVars, restVars>>

\* Concat handed the worker's results in reverse order.
DCConcatReversed ==
    /\ stack # <<>>
    /\ Top.pc = "check"
    /\ ~CountMismatch(Top.wres, Top.tasks)
    /\ concatArg' = [k \in 1..Len(Top.wres) |-> Top.wres[Len(Top.wres) + 1 - k]]
    /\ concatCalls' = concatCalls + 1
    /\ stack' = SetTop([Top EXCEPT !.pc = "ret", !.val = ConcatId(concatCalls + 1)])
    /\ covers' = (ConcatId(concatCalls + 1) :> CoversAll(Top.ids)) @@ covers
    /\ UNCHANGED <<maxFanIn, dcIds, lastRanges, lastBatch, shardCalls,
                   workerCalls, dcResult>>
    /\ UNCHANGED cancelled
    /\ UNCHANGED <<storageVars, restVars>>

\* Line 171: Concat of the results succeeds.
DCConcat ==
    /\ stack # <<>>
    /\ Top.pc = "check"
    /\ ~CountMismatch(Top.wres, Top.tasks)
    /\ concatArg' = Top.wres
    /\ concatCalls' = concatCalls + 1
    /\ stack' = SetTop([Top EXCEPT !.pc = "ret", !.val = ConcatId(concatCalls + 1)])
    /\ covers' = (ConcatId(concatCalls + 1) :> CoversAll(Top.ids)) @@ covers
    /\ UNCHANGED <<maxFanIn, dcIds, lastRanges, lastBatch, shardCalls,
                   workerCalls, dcResult>>
    /\ UNCHANGED cancelled
    /\ UNCHANGED <<storageVars, restVars>>

\* Line 171: Concat fails.
DCConcatFail ==
    /\ stack # <<>>
    /\ Top.pc = "check"
    /\ ~CountMismatch(Top.wres, Top.tasks)
    /\ concatArg' = Top.wres
    /\ concatCalls' = concatCalls + 1
    /\ stack' = SetTop([Top EXCEPT !.pc = "ret", !.err = "concat"])
    /\ UNCHANGED <<maxFanIn, dcIds, lastRanges, lastBatch, shardCalls,
                   workerCalls, dcResult>>
    /\ UNCHANGED <<covers, cancelled>>
    /\ UNCHANGED <<storageVars, restVars>>

\* Resume with the child's id put in front of results instead of behind.
ResumePrepend(caller, callee) ==
    IF caller.pc = "child" /\ callee.err = ""
    THEN [caller EXCEPT !.pc = "loop",
                        !.results = <<callee.val>> \o caller.results,
                        !.start = caller.start + caller.childSize]
    ELSE [caller EXCEPT !.pc = "ret", !.val = callee.val, !.err = callee.err]

\* Resume that skips a failed group and goes on with the next one.
ResumeSkipFailed(caller, callee) ==
    IF caller.pc = "child"
    THEN [caller EXCEPT !.pc = "loop",
                        !.results = IF callee.err = ""
                                    THEN Append(caller.results, callee.val)
                                    ELSE caller.results,
                        !.start = caller.start + caller.childSize]
    ELSE [caller EXCEPT !.pc = "ret", !.val = callee.val, !.err = callee.err]

\* What the caller frame does with what its callee returned: at line 144-148
\* an error is returned, an id is appended to results and the loop goes on;
\* at line 150 whatever the call returned is returned.
Resume(caller, callee) ==
    IF caller.pc = "child" /\ callee.err = ""
    THEN [caller EXCEPT !.pc = "loop",
                        !.results = Append(caller.results, callee.val),
                        !.start = caller.start + caller.childSize]
    ELSE [caller EXCEPT !.pc = "ret", !.val = callee.val, !.err = callee.err]

\* An invocation returns to its caller.
DCReturn ==
    /\ stack # <<>>
    /\ Top.pc = "ret"
    /\ IF Len(stack) = 1
       THEN /\ stack' = <<>>
            /\ dcResult' = [val |-> Top.val, err |-> Top.err]
       ELSE /\ stack' = Append(SubSeq(stack, 1, Len(stack) - 2),
                               Resume(stack[Len(stack) - 1], Top))
            /\ UNCHANGED dcResult
    /\ UNCHANGED <<maxFanIn, dcIds, lastRanges, lastBatch, concatArg,
                   shardCalls, workerCalls, concatCalls>>
    /\ UNCHANGED <<covers, cancelled>>
    /\ UNCHANGED <<storageVars, restVars>>

\* No Storage.Compact call is running.
StorageIdle ==
    /\ store = <<>>
    /\ levelFactor = 1
    /\ origIds = <<>>
    /\ ids = <<>>
    /\ pc = "idle"
    /\ flat = <<>>
    /\ inputs = <<>>
    /\ idx = 0
    /\ mergeArg = <<>>
    /\ composeArg = <<>>
    /\ mergeCalls = 0
    /\ composeCalls = 0
    /\ result = 0
    /\ err = ""

\* A caller is about to run DistributedCompactor.Compact on a list of ids.
DCInit ==
    /\ maxFanIn \in 1..MaxFanIn
    /\ \E n \in 0..MaxIds : dcIds = [k \in 1..n |-> InputId(k)]
    /\ stack = <<Frame(dcIds)>>
    /\ lastRanges = <<>>
    /\ lastBatch = <<>>
    /\ concatArg = <<>>
    /\ shardCalls = 0
    /\ workerCalls = 0
    /\ concatCalls = 0
    /\ dcResult = NoReturn
    /\ covers = [id \in { dcIds[k] : k \in 1..Len(dcIds) } |-> <<id>>]
    /\ cancelled = FALSE

InitDC == StorageIdle /\ DCInit /\ RestIdle

NextDC ==
    \/ DCBase
    \/ DCRecurse
    \/ DCGrow
    \/ DCSized
    \/ DCChild
    \/ DCFinal
    \/ DCShard
    \/ DCShardFail
    \/ DCWork
    \/ DCWorkFail
    \/ DCMismatch
    \/ DCConcat
    \/ DCConcatFail
    \/ DCReturn

SpecDC == InitDC /\ [][NextDC]_vars

\* The compactor's calls are synchronous: a step that can run does run.
FairSpecDC == SpecDC /\ WF_vars(NextDC)

\* The caller raises the cancellation signal of the ctx it passed at line
\* 130 while the call is running.  No line of the compactor reads ctx: it is
\* only handed on to Shard, workerFunc, Concat and the child calls.
DCCancel ==
    /\ stack # <<>>
    /\ ~cancelled
    /\ cancelled' = TRUE
    /\ UNCHANGED <<maxFanIn, dcIds, stack, lastRanges, lastBatch, concatArg,
                   shardCalls, workerCalls, concatCalls, dcResult, covers>>
    /\ UNCHANGED <<storageVars, restVars>>

\* A collaborator that is handed a cancelled ctx refuses the work: Shard,
\* workerFunc and Concat succeed only while the signal is not raised.
DCShardLive == ~cancelled /\ DCShard
DCWorkLive == ~cancelled /\ DCWork
DCConcatLive == ~cancelled /\ DCConcat

NextDCCancel ==
    \/ DCCancel
    \/ DCBase
    \/ DCRecurse
    \/ DCGrow
    \/ DCSized
    \/ DCChild
    \/ DCFinal
    \/ DCShardLive
    \/ DCShardFail
    \/ DCWorkLive
    \/ DCWorkFail
    \/ DCMismatch
    \/ DCConcatLive
    \/ DCConcatFail
    \/ DCReturn

\* DistributedCompactor.Compact under a ctx that may be cancelled at any time.
SpecDCCancel == InitDC /\ [][NextDCCancel]_vars

(***************************************************************************)
(* Storage.IsCompacted (lines 12-38).  One call is one step: it takes one  *)
(* of the exits of the function.  Any of the reads may fail.               *)
(***************************************************************************)
\* The ids whose metadata Flatten and getPrimitiveBatch read for a list of
\* references: the references and everything their composites point to.
RECURSIVE Reached(_, _)
Reached(st, refs) ==
    IF refs = <<>> THEN {}
    ELSE LET id == Head(refs) IN
         {id} \cup (IF st[id].kind = "comp" THEN Reached(st, st[id].ptrs) ELSE {})
              \cup Reached(st, Tail(refs))

ICReturn(val, e, reads) ==
    /\ icPc = "call"
    /\ icRet' = [val |-> val, err |-> e]
    /\ icReads' = reads
    /\ icPc' = "done"
    /\ UNCHANGED icId
    /\ UNCHANGED <<storageVars, dcVars, txnVars>>

\* Lines 13-16: the store lookup fails.
ICGetFail ==
    /\ icPc = "call"
    /\ icId \in IDs(store)
    /\ ICReturn(FALSE, "lookup", {})

\* Lines 32-33: a primitive is compacted.
ICPrimitive ==
    /\ icPc = "call"
    /\ store[icId].kind = "prim"
    /\ ICReturn(TRUE, "", {icId})

\* Default case with a verdict in place of the error.
ICEmptyVerdict ==
    /\ icPc = "call"
    /\ store[icId].kind = "empty"
    /\ ICReturn(TRUE, "", {icId})

\* Lines 34-36: metadata with neither variant.
ICEmpty ==
    /\ icPc = "call"
    /\ store[icId].kind = "empty"
    /\ ICReturn(FALSE, "IsCompacted is not defined for empty filesets", {icId})

\* Lines 19-22: PointsTo fails.
ICPointsToFail ==
    /\ icPc = "call"
    /\ store[icId].kind = "comp"
    /\ ICReturn(FALSE, "pointsTo", {icId})

\* Lines 23-26: Flatten fails, on its own or on a reference it cannot expand.
ICFlattenFail ==
    /\ icPc = "call"
    /\ store[icId].kind = "comp"
    /\ ICReturn(FALSE, "flatten", {icId} \cup Reached(store, store[icId].ptrs))

\* Lines 27-30: reading the primitives fails.
ICBatchFail ==
    /\ icPc = "call"
    /\ store[icId].kind = "comp"
    /\ Flatten(store, store[icId].ptrs).ok
    /\ ICReturn(FALSE, "read", {icId} \cup Reached(store, store[icId].ptrs))

\* Lines 18-31: the verdict of isCompacted on the flattened layers.
ICComposite ==
    /\ icPc = "call"
    /\ store[icId].kind = "comp"
    /\ Flatten(store, store[icId].ptrs).ok
    /\ ICReturn(isCompacted(levelFactor,
                            getPrimitiveBatch(store, Flatten(store, store[icId].ptrs).val)),
                "", {icId} \cup Reached(store, store[icId].ptrs))

\* The stores IsCompacted is called on: those of InitStores with one more
\* fileset, id 8, a composite that points to the fileset with no variant.
ICStores == { Append(st, Composite(<<3, 7>>)) : st \in InitStores }

\* A caller is about to run IsCompacted(icId) on some store.
ICInit ==
    /\ store \in ICStores
    /\ levelFactor \in LevelFactors
    /\ origIds = <<>>
    /\ ids = <<>>
    /\ pc = "idle"
    /\ flat = <<>>
    /\ inputs = <<>>
    /\ idx = 0
    /\ mergeArg = <<>>
    /\ composeArg = <<>>
    /\ mergeCalls = 0
    /\ composeCalls = 0
    /\ result = 0
    /\ err = ""
    /\ icId \in IDs(store)
    /\ icPc = "call"
    /\ icRet = [val |-> FALSE, err |-> ""]
    /\ icReads = {}

InitIC == ICInit /\ DCIdle /\ TxnIdle

NextIC ==
    \/ ICGetFail
    \/ ICPrimitive
    \/ ICEmpty
    \/ ICPointsToFail
    \/ ICFlattenFail
    \/ ICBatchFail
    \/ ICComposite

SpecIC == InitIC /\ [][NextIC]_vars

(***************************************************************************)
(* TransactionEnv.WithTransaction (transactionenv, lines 361-381) and the  *)
(* two implementations of Transaction it hands to the callback.  The       *)
(* callback is the caller's code: it invokes write operations of the       *)
(* Transaction, in any number and order, and returns nil or an error.      *)
(***************************************************************************)
\* The operations of PfsWrites (lines 20-33) and of AuthWrites (lines 35-43).
PfsOps == {"CreateRepo", "DeleteRepo", "StartCommit", "FinishCommit",
           "DeleteCommit", "CreateBranch", "DeleteBranch", "CopyFile",
           "DeleteFile"}
AuthOps == {"SetScope", "SetACL"}
WriteOps == PfsOps \cup AuthOps

\* Mode selection with the two branches exchanged.
SelectModeSwapped(activeTxn) ==
    IF activeTxn # NilTxn THEN "direct" ELSE "append"

\* Line 367: an active transaction selects the append transaction, none
\* selects the direct one.
SelectMode(activeTxn) ==
    IF activeTxn # NilTxn THEN "append" ELSE "direct"

\* The server method a directTransaction operation calls (lines 226-279).
InTransactionMethod(op) ==
    [server |-> IF op \in PfsOps THEN "pfsServer" ELSE "authServer",
     method |-> op]

\* The AppendRequest call an appendTransaction operation makes (lines
\* 295-341): the active transaction and a request with the field of op set.
AppendRequest(activeTxn, op) == [txn |-> activeTxn, field |-> op]

\* Lines 362-365: reading the active transaction fails; the error is returned.
TxnGetFail ==
    /\ txnPc = "start"
    /\ ctxTxn = BadCtx
    /\ txnErr' = "getTransaction"
    /\ txnPc' = "done"
    /\ UNCHANGED <<ctxTxn, txnMode, stmOpened, cbRuns, retries, writeLog,
                   appendLog, directLog, deferRuns>>
    /\ UNCHANGED <<storageVars, dcVars, icVars>>

\* Lines 367-369: the callback is invoked on an append transaction.
TxnBeginAppend ==
    /\ txnPc = "start"
    /\ ctxTxn # BadCtx
    /\ SelectMode(ctxTxn) = "append"
    /\ txnMode' = "append"
    /\ cbRuns' = cbRuns + 1
    /\ txnPc' = "cb"
    /\ UNCHANGED <<ctxTxn, stmOpened, retries, writeLog, appendLog, directLog,
                   deferRuns, txnErr>>
    /\ UNCHANGED <<storageVars, dcVars, icVars>>

\* Lines 372-374: an STM is opened and its callback invokes the caller's
\* callback on a direct transaction.
TxnBeginDirect ==
    /\ txnPc = "start"
    /\ ctxTxn # BadCtx
    /\ SelectMode(ctxTxn) = "direct"
    /\ txnMode' = "direct"
    /\ stmOpened' = stmOpened + 1
    /\ cbRuns' = cbRuns + 1
    /\ txnPc' = "cb"
    /\ UNCHANGED <<ctxTxn, retries, writeLog, appendLog, directLog, deferRuns,
                   txnErr>>
    /\ UNCHANGED <<storageVars, dcVars, icVars>>

\* Lines 295-341: a PFS write on the append transaction makes one
\* AppendRequest call and returns its error (or response).
TxnAppendWrite ==
    /\ txnPc = "cb"
    /\ txnMode = "append"
    /\ Len(writeLog) < MaxWrites
    /\ \E op \in PfsOps :
         /\ writeLog' = Append(writeLog, op)
         /\ appendLog' = Append(appendLog, AppendRequest(ctxTxn, op))
    /\ UNCHANGED <<ctxTxn, txnPc, txnMode, stmOpened, cbRuns, retries,
                   directLog, deferRuns, txnErr>>
    /\ UNCHANGED <<storageVars, dcVars, icVars>>

\* Lines 343-349: SetScope and SetACL on the append transaction panic.
TxnAppendAuth ==
    /\ txnPc = "cb"
    /\ txnMode = "append"
    /\ Len(writeLog) < MaxWrites
    /\ \E op \in AuthOps : writeLog' = Append(writeLog, op)
    /\ txnPc' = "panic"
    /\ UNCHANGED <<ctxTxn, txnMode, stmOpened, cbRuns, retries, appendLog,
                   directLog, deferRuns, txnErr>>
    /\ UNCHANGED <<storageVars, dcVars, icVars>>

\* Lines 226-279: a write on the direct transaction calls the server's
\* *InTransaction method and returns what it returns.
TxnDirectWrite ==
    /\ txnPc = "cb"
    /\ txnMode = "direct"
    /\ Len(writeLog) < MaxWrites
    /\ \E op \in WriteOps :
         /\ writeLog' = Append(writeLog, op)
         /\ directLog' = Append(directLog, InTransactionMethod(op))
    /\ UNCHANGED <<ctxTxn, txnPc, txnMode, stmOpened, cbRuns, retries,
                   appendLog, deferRuns, txnErr>>
    /\ UNCHANGED <<storageVars, dcVars, icVars>>

\* Line 369: the callback returns on the append transaction, nil or an
\* error, and WithTransaction returns the same.
TxnAppendReturn ==
    /\ txnPc = "cb"
    /\ txnMode = "append"
    /\ \E e \in {"", "callback"} : txnErr' = e
    /\ txnPc' = "done"
    /\ UNCHANGED <<ctxTxn, txnMode, stmOpened, cbRuns, retries, writeLog,
                   appendLog, directLog, deferRuns>>
    /\ UNCHANGED <<storageVars, dcVars, icVars>>

\* A failing callback after which the deferred PFS tasks are run all the same.
TxnDirectFailRunsDefer ==
    /\ txnPc = "cb"
    /\ txnMode = "direct"
    /\ deferRuns' = deferRuns + 1
    /\ txnErr' = "callback"
    /\ txnPc' = "done"
    /\ UNCHANGED <<ctxTxn, txnMode, stmOpened, cbRuns, retries, writeLog,
                   appendLog, directLog>>
    /\ UNCHANGED <<storageVars, dcVars, icVars>>

\* Lines 374-377, 380: the callback returns an error on the direct
\* transaction; the STM callback returns it, Finish is not called, and the
\* STM gives it back.
TxnDirectFail ==
    /\ txnPc = "cb"
    /\ txnMode = "direct"
    /\ txnErr' = "callback"
    /\ txnPc' = "done"
    /\ UNCHANGED <<ctxTxn, txnMode, stmOpened, cbRuns, retries, writeLog,
                   appendLog, directLog, deferRuns>>
    /\ UNCHANGED <<storageVars, dcVars, icVars>>

\* Lines 374-378, 222-224: the callback returns nil on the direct
\* transaction and Finish runs the deferred PFS tasks, which succeed.
TxnFinish ==
    /\ txnPc = "cb"
    /\ txnMode = "direct"
    /\ deferRuns' = deferRuns + 1
    /\ txnPc' = "commit"
    /\ UNCHANGED <<ctxTxn, txnMode, stmOpened, cbRuns, retries, writeLog,
                   appendLog, directLog, txnErr>>
    /\ UNCHANGED <<storageVars, dcVars, icVars>>

\* Lines 378, 380: the deferred PFS tasks fail; the STM gives the error back.
TxnFinishFail ==
    /\ txnPc = "cb"
    /\ txnMode = "direct"
    /\ deferRuns' = deferRuns + 1
    /\ txnErr' = "run"
    /\ txnPc' = "done"
    /\ UNCHANGED <<ctxTxn, txnMode, stmOpened, cbRuns, retries, writeLog,
                   appendLog, directLog>>
    /\ UNCHANGED <<storageVars, dcVars, icVars>>

\* Lines 372, 380: the STM commits, or fails to, and WithTransaction returns.
TxnCommit ==
    /\ txnPc = "commit"
    /\ \E e \in {"", "stm"} : txnErr' = e
    /\ txnPc' = "done"
    /\ UNCHANGED <<ctxTxn, txnMode, stmOpened, cbRuns, retries, writeLog,
                   appendLog, directLog, deferRuns>>
    /\ UNCHANGED <<storageVars, dcVars, icVars>>

\* Line 372: the STM finds a conflict at commit and runs its callback again,
\* which makes a new direct transaction and invokes the caller's callback.
TxnRetry ==
    /\ txnPc = "commit"
    /\ retries < MaxRetries
    /\ retries' = retries + 1
    /\ cbRuns' = cbRuns + 1
    /\ txnPc' = "cb"
    /\ UNCHANGED <<ctxTxn, txnMode, stmOpened, writeLog, appendLog, directLog,
                   deferRuns, txnErr>>
    /\ UNCHANGED <<storageVars, dcVars, icVars>>

\* A caller is about to run WithTransaction on some RPC context.
TxnInit ==
    /\ ctxTxn \in {BadCtx, NilTxn} \cup 1..MaxTxn
    /\ txnPc = "start"
    /\ txnMode = "none"
    /\ stmOpened = 0
    /\ cbRuns = 0
    /\ retries = 0
    /\ writeLog = <<>>
    /\ appendLog = <<>>
    /\ directLog = <<>>
    /\ deferRuns = 0
    /\ txnErr = ""

InitTxn == StorageIdle /\ DCIdle /\ ICIdle /\ TxnInit

NextTxn ==
    \/ TxnGetFail
    \/ TxnBeginAppend
    \/ TxnBeginDirect
    \/ TxnAppendWrite
    \/ TxnAppendAuth
    \/ TxnDirectWrite
    \/ TxnAppendReturn
    \/ TxnDirectFail
    \/ TxnFinish
    \/ TxnFinishFail
    \/ TxnCommit
    \/ TxnRetry

SpecTxn == InitTxn /\ [][NextTxn]_vars

\* The operations of the fileset core, one call of one of them per run:
\* Storage.Compact, Storage.IsCompacted or DistributedCompactor.Compact.
InitCore == Init \/ InitIC \/ InitDC

NextCore == Next \/ NextIC \/ NextDC

SpecCore == InitCore /\ [][NextCore]_vars

(***************************************************************************)
(* Properties of Storage.Compact and indexOfCompacted.                     *)
(***************************************************************************)
\* The compacted relationship on a list of sizes, stated on the pairs.
SizeRatioHolds(factor, sizes) ==
    \A j \in 1..(Len(sizes) - 1) : sizes[j] >= sizes[j + 1] * factor

\* The left index (0-based) of the first adjacent pair that violates the
\* compacted relationship, or the length when no pair does.
FirstViolation(factor, sizes) ==
    LET V == { j \in 0..(Len(sizes) - 2) : sizes[j + 1] < sizes[j + 2] * factor }
    IN IF V = {} THEN Len(sizes)
       ELSE CHOOSE j \in V : \A k \in V : j <= k

\* The flattened primitive ids of the fileset the call returned, and their sizes.
ResultFlat == Flatten(store, <<result>>)
ResultSizes == getPrimitiveBatch(store, ResultFlat.val)

\* The flattened primitive ids of the caller's list, and their sizes.
OrigFlat == Flatten(store, origIds)
OrigSizes == getPrimitiveBatch(store, OrigFlat.val)

Terminated == pc \in {"done", "error"}

\* C1: whenever Storage.Compact returns successfully, every adjacent pair of
\* the flattened primitive layers of the returned fileset satisfies
\* size[j] >= size[j+1] * levelFactor, whatever sizes the Merge calls produced.
C1_InvariantRestored ==
    pc = "done" =>
        /\ ResultFlat.ok
        /\ SizeRatioHolds(levelFactor, ResultSizes)

\* A call that returned two or more layers after two or more merges.
C1_Witness ==
    /\ pc = "done"
    /\ mergeCalls >= 2
    /\ Len(ResultSizes) >= 2

\* C2: Storage.Compact terminates: an invocation whose reads succeed either
\* composes (the index is the length) or merges a suffix of the list; the
\* only step that does not return is that Merge followed by a recursive call,
\* made on a list strictly shorter than
\* the current flattened list (the layers left plus the merges made never
\* exceed the layers the call started with); Merge is only called on a suffix
\* of at least 2 ids (indexOfCompacted never returns len - 1); so at most
\* n - 1 Merge calls happen for n flattened layers.
C2_Terminates ==
    /\ (pc = "call" /\ CurFlat.ok) =>
          \/ CurIdx = Len(CurInputs)
          \/ CurIdx \in 0..(Len(CurInputs) - 2)
    /\ (pc = "call" /\ mergeCalls > 0) => Len(ids) < Len(flat)
    /\ (pc = "call" /\ OrigFlat.ok) =>
          /\ CurFlat.ok
          /\ Len(CurFlat.val) + mergeCalls <= Len(OrigFlat.val)
    /\ mergeCalls > 0 => Len(mergeArg) >= 2
    /\ idx # Len(inputs) - 1
    /\ (OrigFlat.ok /\ Len(OrigFlat.val) >= 1) => mergeCalls <= Len(OrigFlat.val) - 1
    /\ (OrigFlat.ok /\ Len(OrigFlat.val) = 0) => mergeCalls = 0

\* Every call of Storage.Compact returns (checked under FairSpec).
C2_EventuallyReturns == <>Terminated

\* A call over three or more layers that needed the largest number of merges.
C2_Witness ==
    /\ pc = "done"
    /\ mergeCalls >= 2
    /\ mergeCalls = Len(OrigFlat.val) - 1

\* C3: when the flattened layers of the caller's list already satisfy the
\* size-ratio invariant, Compact makes no Merge call and exactly one Compose
\* call, and the flattened layers of the returned reference are the flattened
\* layers of the caller's list, in the same order and with the same sizes.
C3_CompactedInputComposes ==
    (OrigFlat.ok /\ SizeRatioHolds(levelFactor, OrigSizes)) =>
        /\ mergeCalls = 0
        /\ composeCalls <= 1
        /\ pc = "done" =>
             /\ composeCalls = 1
             /\ ResultFlat = Ok(OrigFlat.val)
             /\ ResultSizes = OrigSizes

\* An already compacted list of three or more layers, given through a
\* composite, was composed.
C3_Witness ==
    /\ pc = "done"
    /\ mergeCalls = 0
    /\ Len(OrigSizes) >= 3
    /\ OrigFlat.val # origIds
    /\ SizeRatioHolds(levelFactor, OrigSizes)

\* C4: indexOfCompacted returns the left index of the first adjacent pair
\* with layers[j] < layers[j+1] * factor, and the length when no pair
\* violates; it returns the length for lists of length 0 or 1; it returns the
\* length iff isCompacted is true, which is iff no adjacent pair violates.
C4_IndexIsFirstViolation ==
    (mergeCalls + composeCalls > 0) =>
        /\ idx = FirstViolation(levelFactor, inputs)
        /\ Len(inputs) <= 1 => idx = Len(inputs)
        /\ (idx = Len(inputs)) <=> isCompacted(levelFactor, inputs)
        /\ isCompacted(levelFactor, inputs) <=> SizeRatioHolds(levelFactor, inputs)

\* The first violating pair is neither the first nor the last pair of the list.
C4_Witness ==
    /\ mergeCalls > 0
    /\ Len(inputs) >= 4
    /\ idx = 1

\* The size of the layer the last Merge produced (the last id of ids2).
MergedSize == store[ids[Len(ids)]].size

\* C5 as stated: after layers[i:] is replaced by the merged layer, the index
\* of the new list is greater than or equal to i, at every step of the recursion.
C5_IndexNeverDecreases ==
    (pc = "call" /\ mergeCalls > 0) => CurIdx >= idx

\* C5 as amended: the index of the new list is i - 1 or i + 1 (the new
\* length); it is at least i exactly when i = 0 or the layer before the merge
\* is at least levelFactor times the merged layer.
C5_IndexAfterMerge ==
    (pc = "call" /\ mergeCalls > 0) =>
        /\ CurIdx \in {idx - 1, idx + 1}
        /\ CurIdx >= idx - 1
        /\ (CurIdx >= idx) <=> (idx = 0 \/ inputs[idx] >= MergedSize * levelFactor)

\* A merge after which the break point moved one layer to the left.
C5_Witness ==
    /\ pc = "call"
    /\ mergeCalls > 0
    /\ idx >= 1
    /\ CurIdx = idx - 1

(***************************************************************************)
(* Properties of DistributedCompactor.                                     *)
(***************************************************************************)
DCTerminated == stack = <<>>

\* The frames of the stack that are running shardedCompact.
ShardedFrames ==
    { k \in 1..Len(stack) : stack[k].pc \in {"shard", "work", "check"} }

\* C6 as stated: in the recursive case ids is split into at most maxFanIn
\* groups, so the list of group results passed to the follow-up Compact call
\* has length <= maxFanIn.
C6_AtMostMaxFanInGroups ==
    \A k \in 1..Len(stack) :
        stack[k].pc = "final" => Len(stack[k].results) <= maxFanIn

\* C7 as stated: DistributedCompactor.Compact terminates for every finite id
\* list and every maxFanIn >= 1: the call returns, and until it has, some
\* step that changes the state of the call can be taken (the child-size loop
\* exits, every recursion goes on to the base case).
C7_Terminates ==
    /\ [](DCTerminated \/ ENABLED <<NextDC>>_vars)
    /\ <>DCTerminated

\* What does hold: with maxFanIn >= 2 every call returns.
C7_TerminatesFromFanInTwo ==
    (maxFanIn >= 2) =>
        /\ [](DCTerminated \/ ENABLED <<NextDC>>_vars)
        /\ <>DCTerminated

\* C8: when workerFunc returns, without error, a result list whose length
\* differs from the number of tasks, the call fails with the count-mismatch
\* error and Concat is not called for that batch; the error is what every
\* caller up to the root returns, and no collaborator is called on the way.
C8_MismatchDetected ==
    [][ /\ (stack # <<>> /\ Top.pc = "check" /\ Len(Top.wres) # Len(Top.tasks))
           => /\ stack' # <<>>
              /\ stack'[Len(stack')].pc = "ret"
              /\ stack'[Len(stack')].err = "mismatch"
              /\ concatCalls' = concatCalls
        /\ (stack # <<>> /\ Top.pc = "ret" /\ Top.err = "mismatch")
           => /\ concatCalls' = concatCalls
              /\ workerCalls' = workerCalls
              /\ shardCalls' = shardCalls
              /\ IF stack' = <<>>
                 THEN dcResult'.err = "mismatch"
                 ELSE /\ stack'[Len(stack')].pc = "ret"
                      /\ stack'[Len(stack')].err = "mismatch"
      ]_vars

\* A nested call failed with the count mismatch after the worker returned one
\* result more than there were tasks.
C8_Witness ==
    /\ Len(stack) >= 2
    /\ Top.pc = "ret"
    /\ Top.err = "mismatch"
    /\ Len(Top.tasks) >= 1
    /\ Len(Top.wres) = Len(Top.tasks) + 1

\* C9 as stated: every batch submitted to workerFunc contains at most
\* maxFanIn tasks, for any number of path ranges the Sharder emits.
C9_BatchAtMostMaxFanIn ==
    workerCalls > 0 => Len(lastBatch) <= maxFanIn

\* C9 as amended: every batch holds exactly one task per path range the
\* Sharder emitted for that call, in order, so its size is the number of
\* ranges, whatever maxFanIn is; maxFanIn bounds the Inputs of each task.
\* (Read when workerFunc has just returned: lastRanges is that call's Shard.)
C9_BatchIsOneTaskPerRange ==
    (stack # <<>> /\ Top.pc = "check") =>
        /\ Len(lastBatch) = Len(lastRanges)
        /\ \A k \in 1..Len(lastBatch) :
             /\ lastBatch[k].PathRange = lastRanges[k]
             /\ Len(lastBatch[k].Inputs) <= maxFanIn

\* A batch of more tasks than maxFanIn was handed to workerFunc.
C9_Witness ==
    /\ stack # <<>>
    /\ Top.pc = "check"
    /\ Len(lastBatch) > maxFanIn
    /\ Len(lastBatch) = Len(lastRanges)

\* C10: every call of shardedCompact, and the Inputs list of every
\* CompactionTask handed to workerFunc, has at most maxFanIn references.
C10_FanInBound ==
    /\ \A k \in ShardedFrames :
         /\ Len(stack[k].ids) <= maxFanIn
         /\ \A t \in 1..Len(stack[k].tasks) :
              Len(stack[k].tasks[t].Inputs) <= maxFanIn
    /\ \A t \in 1..Len(lastBatch) : Len(lastBatch[t].Inputs) <= maxFanIn

\* A shardedCompact call two levels down the tree hands workerFunc tasks of
\* exactly maxFanIn inputs.
C10_Witness ==
    /\ Len(stack) >= 3
    /\ maxFanIn >= 2
    /\ Top.pc = "check"
    /\ Len(lastBatch) >= 1
    /\ Len(lastBatch[1].Inputs) = maxFanIn

\* The k-th group (1-based) of a frame in the recursive case: the slice the
\* loop of lines 139-143 cuts for start = (k - 1) * childSize.
GroupOf(f, k) ==
    Slice(f.ids, (k - 1) * f.childSize,
          GroupEnd((k - 1) * f.childSize, f.childSize, Len(f.ids)))

\* The part of a frame's ids that its finished groups span.
DonePrefix(f) ==
    SubSeq(f.ids, 1, IF f.start < Len(f.ids) THEN f.start ELSE Len(f.ids))

\* C11: the fan-in tree preserves order.  In every invocation of the
\* recursive case the groups are cut left to right, contiguous and without
\* overlap: the group being compacted is the slice that starts where the
\* finished groups end, the id at position k of results stands for exactly
\* the ids of group k, and results read left to right stands for the prefix
\* of ids compacted so far; the final call is made on results, once they
\* stand for all of ids.  What an invocation returns stands for its whole
\* input list, in order, so the root's result stands for the caller's list.
C11_OrderPreserved ==
    /\ \A k \in 1..Len(stack) :
         LET f == stack[k] IN
         /\ f.pc \in {"loop", "child", "final"} =>
               /\ f.start = Len(f.results) * f.childSize
               /\ \A j \in 1..Len(f.results) :
                     /\ GroupOf(f, j) # <<>>
                     /\ covers[f.results[j]] = CoversAll(GroupOf(f, j))
               /\ CoversAll(f.results) = CoversAll(DonePrefix(f))
         /\ f.pc = "child" =>
               /\ stack[k + 1].ids = GroupOf(f, Len(f.results) + 1)
               /\ DonePrefix(f) \o stack[k + 1].ids
                     = SubSeq(f.ids, 1, Len(DonePrefix(f)) + Len(stack[k + 1].ids))
         /\ f.pc = "final" =>
               /\ stack[k + 1].ids = f.results
               /\ CoversAll(f.results) = CoversAll(f.ids)
         /\ (f.pc = "ret" /\ f.err = "") => covers[f.val] = CoversAll(f.ids)
    /\ stack # <<>> => stack[1].ids = dcIds
    /\ (DCTerminated /\ dcResult.err = "") => covers[dcResult.val] = dcIds

\* A root call over a two-level tree returned successfully.
C11_Witness ==
    /\ DCTerminated
    /\ dcResult.err = ""
    /\ maxFanIn = 2
    /\ Len(dcIds) >= 5
    /\ covers[dcResult.val] = dcIds

\* Some invocation on the stack holds a failure, or the root returned one.
FailureSeen ==
    \/ \E k \in 1..Len(stack) : stack[k].err # ""
    \/ dcResult.err \notin {"", "running", "idle"}

\* C12: fail-fast abort.  Once a Shard, workerFunc, Concat or length-check
\* step has failed, no step starts a child call or calls Shard, workerFunc or
\* Concat again, and every step hands the failure unchanged to the caller,
\* which holds it as its own return value, until the root call returns it.
C12_FailFast ==
    [][ /\ FailureSeen =>
             /\ shardCalls' = shardCalls
             /\ workerCalls' = workerCalls
             /\ concatCalls' = concatCalls
             /\ Len(stack') < Len(stack)
        /\ (stack # <<>> /\ Top.pc = "ret" /\ Top.err # "") =>
             IF Len(stack) = 1
             THEN /\ stack' = <<>>
                  /\ dcResult'.err = Top.err
             ELSE /\ stack'[Len(stack')].pc = "ret"
                  /\ stack'[Len(stack')].err = Top.err
                  /\ stack'[Len(stack')].results = stack[Len(stack')].results
      ]_vars

\* The root returned the failure of the second of three groups: the third
\* group was never sharded.
C12_Witness ==
    /\ DCTerminated
    /\ dcResult.err = "worker"
    /\ maxFanIn = 2
    /\ Len(dcIds) = 5
    /\ shardCalls = 2
    /\ workerCalls = 2
    /\ concatCalls = 1

\* C13: cancellation.  Once the cancellation signal is raised during
\* DistributedCompactor.Compact, no new sub-task is issued: no child
\* compaction is started (no step pushes an invocation) and no worker batch
\* is dispatched.
C13_NoSubTaskAfterCancel ==
    [][ cancelled =>
          /\ Len(stack') <= Len(stack)
          /\ workerCalls' = workerCalls
      ]_vars

\* C15 as stated: when the caller's list is already compacted, Compose is
\* called with the caller's original, unflattened list.
C15_ComposeGetsOriginal ==
    (composeCalls > 0 /\ mergeCalls = 0) => composeArg = origIds

\* C15: the list Compose is called with is the flattened list of the
\* invocation (line 75 reassigns ids before line 85 reads it): every id in
\* it is a primitive, and when the caller's list is already compacted it is
\* the flattening of the caller's list.  It is the caller's list only when
\* that list holds no composite.
C15_ComposeGetsFlattened ==
    composeCalls > 0 =>
        /\ composeArg = flat
        /\ \A k \in 1..Len(composeArg) : store[composeArg[k]].kind = "prim"
        /\ mergeCalls = 0 =>
              /\ composeArg = OrigFlat.val
              /\ (composeArg = origIds) <=>
                    (\A k \in 1..Len(origIds) : store[origIds[k]].kind = "prim")

\* An already compacted list given through a composite was composed: the
\* list Compose got is not the caller's list.
C15_Witness ==
    /\ composeCalls > 0
    /\ mergeCalls = 0
    /\ Len(composeArg) >= 2
    /\ composeArg # origIds

(***************************************************************************)
(* Properties of Storage.IsCompacted.                                      *)
(***************************************************************************)
\* The sizes of the flattened layers of the composite IsCompacted was given.
ICLayers == getPrimitiveBatch(store, Flatten(store, store[icId].ptrs).val)

\* C16: IsCompacted(id) decides by the variant of the metadata.  For a
\* Primitive it answers true, having read no fileset but id itself, and the
\* only error it can return is that of the lookup of id.  For a Composite
\* whose reads succeed it answers true exactly when every adjacent pair of
\* the flattened layers satisfies left >= right * levelFactor, and false
\* otherwise.
C16_VerdictByVariant ==
    icPc = "done" =>
        /\ store[icId].kind = "prim" =>
              /\ icRet.err \in {"", "lookup"}
              /\ icRet.err = "" => (icRet.val = TRUE /\ icReads = {icId})
              /\ icReads \subseteq {icId}
        /\ (store[icId].kind = "comp" /\ icRet.err = "") =>
              /\ Flatten(store, store[icId].ptrs).ok
              /\ icRet.val <=> SizeRatioHolds(levelFactor, ICLayers)

\* A composite of three layers whose first pair holds and last pair does
\* not got the answer false.
C16_Witness ==
    /\ icPc = "done"
    /\ icRet.err = ""
    /\ store[icId].kind = "comp"
    /\ Len(ICLayers) = 3
    /\ ICLayers[1] >= ICLayers[2] * levelFactor
    /\ ICLayers[2] < ICLayers[3] * levelFactor
    /\ icRet.val = FALSE

\* A primitive got the answer true.
C16_WitnessPrimitive ==
    /\ icPc = "done"
    /\ store[icId].kind = "prim"
    /\ icRet = [val |-> TRUE, err |-> ""]

\* The error of the default case, line 36.
NotDefinedForEmpty == "IsCompacted is not defined for empty filesets"

\* C17: IsCompacted on metadata with neither variant returns the error
\* 'IsCompacted is not defined for empty filesets' whenever the lookup gave
\* the metadata, and never a verdict; a failure of the lookup, of PointsTo,
\* of Flatten or of the primitive reads is returned as the error, with no
\* verdict: a call that returns without error was on a Primitive, or on a
\* Composite whose references all flatten.
C17_ErrorNotVerdict ==
    icPc = "done" =>
        /\ store[icId].kind = "empty" =>
              /\ icRet.err \in {"lookup", NotDefinedForEmpty}
              /\ icRet.val = FALSE
        /\ icRet.err = NotDefinedForEmpty => store[icId].kind = "empty"
        /\ icRet.err # "" => icRet.val = FALSE
        /\ icRet.err = "" =>
              \/ store[icId].kind = "prim"
              \/ /\ store[icId].kind = "comp"
                 /\ Flatten(store, store[icId].ptrs).ok

\* A call on the fileset with no variant returned the error of line 36.
C17_Witness ==
    /\ icPc = "done"
    /\ store[icId].kind = "empty"
    /\ icRet = [val |-> FALSE, err |-> NotDefinedForEmpty]

\* A call on a composite that cannot be flattened returned Flatten's error.
C17_WitnessFlatten ==
    /\ icPc = "done"
    /\ store[icId].kind = "comp"
    /\ ~Flatten(store, store[icId].ptrs).ok
    /\ icRet = [val |-> FALSE, err |-> "flatten"]

(***************************************************************************)
(* Properties of the core as a whole.                                      *)
(***************************************************************************)
\* The ids of a list, as a set.
Range(list) == { list[k] : k \in 1..Len(list) }

C18_WitnessDC ==
    /\ DCTerminated
    /\ dcResult.err = ""
    /\ Len(dcIds) >= 4
    /\ concatCalls >= 3

\* C19: empty input.  Storage.Compact on a list that flattens to zero layers
\* makes no Merge call and, once its reads succeed, calls Compose with the
\* empty list (indexOfCompacted returns 0, the length) and returns a fileset
\* that flattens to zero layers; IsCompacted on a Composite whose pointers
\* flatten to zero layers answers true whenever its reads succeed: the only
\* errors it can return are those of the reads.
C19_EmptyInput ==
    /\ (pc \in {"call", "done", "error"} /\ OrigFlat.ok /\ OrigFlat.val = <<>>) =>
          /\ mergeCalls = 0
          /\ pc = "error" => err \in {"lookup", "flatten", "compose"}
          /\ composeCalls > 0 =>
                /\ inputs = <<>>
                /\ idx = 0
                /\ composeArg = <<>>
          /\ pc = "done" =>
                /\ composeCalls = 1
                /\ ResultFlat = Ok(<<>>)
    /\ (/\ icPc = "done"
        /\ store[icId].kind = "comp"
        /\ Flatten(store, store[icId].ptrs) = Ok(<<>>)) =>
          /\ icRet.err \in {"", "lookup", "pointsTo", "flatten", "read"}
          /\ icRet.err = "" => icRet.val = TRUE

\* Storage.Compact on a list holding only the empty composite returned.
C19_Witness ==
    /\ pc = "done"
    /\ origIds = <<4>>
    /\ composeCalls = 1
    /\ composeArg = <<>>
    /\ mergeCalls = 0

\* IsCompacted on the empty composite answered true.
C19_WitnessIsCompacted ==
    /\ icPc = "done"
    /\ store[icId] = Composite(<<>>)
    /\ icRet = [val |-> TRUE, err |-> ""]

(***************************************************************************)
(* Properties of WithTransaction.                                          *)
(***************************************************************************)
\* The PFS writes among the operations the callback invoked, in order.
PfsWritesOf(log) == SelectSeq(log, LAMBDA op : op \in PfsOps)

\* C20: WithTransaction selects the mode from the RPC context only.  With an
\* active transaction the callback gets an append transaction, no STM is
\* opened, no server method is called directly, and the AppendRequest calls
\* are, one for one and in order, the PFS writes the callback invoked, each
\* for the active transaction of the context.  With none the callback gets
\* a direct transaction inside the one STM the call opens, nothing is
\* appended, and the server calls are, one for one and in order, the
\* *InTransaction methods of the writes the callback invoked.  When reading
\* the active transaction fails, that error is returned and the callback
\* is never invoked.
C20_ModeFromContext ==
    /\ ctxTxn = BadCtx =>
          /\ cbRuns = 0
          /\ stmOpened = 0
          /\ txnMode = "none"
          /\ writeLog = <<>> /\ appendLog = <<>> /\ directLog = <<>>
          /\ txnPc = "done" => txnErr = "getTransaction"
    /\ txnErr = "getTransaction" => ctxTxn = BadCtx
    /\ ctxTxn \in 1..MaxTxn =>
          /\ stmOpened = 0
          /\ directLog = <<>>
          /\ cbRuns <= 1
          /\ cbRuns = 1 <=> txnMode = "append"
          /\ txnPc \in {"cb", "done", "panic"} => cbRuns = 1
          /\ appendLog = [k \in 1..Len(PfsWritesOf(writeLog)) |->
                            AppendRequest(ctxTxn, PfsWritesOf(writeLog)[k])]
    /\ (ctxTxn = NilTxn /\ txnPc # "idle") =>
          /\ appendLog = <<>>
          /\ cbRuns >= 1 <=> txnMode = "direct"
          /\ cbRuns >= 1 <=> stmOpened = 1
          /\ stmOpened <= 1
          /\ txnPc \in {"cb", "commit", "done"} => cbRuns >= 1
          /\ directLog = [k \in 1..Len(writeLog) |-> InTransactionMethod(writeLog[k])]

\* A call under the active transaction 2 returned after the callback made
\* two different PFS writes.
C20_Witness ==
    /\ txnPc = "done"
    /\ ctxTxn = 2
    /\ Len(appendLog) = 2
    /\ appendLog[1].field # appendLog[2].field

\* A call with no active transaction returned nil after two direct writes.
C20_WitnessDirect ==
    /\ txnPc = "done"
    /\ ctxTxn = NilTxn
    /\ txnErr = ""
    /\ Len(directLog) = 2

\* A call on a context whose transaction cannot be read returned the error.
C20_WitnessBadCtx ==
    /\ txnPc = "done"
    /\ ctxTxn = BadCtx
    /\ txnErr = "getTransaction"

\* C21: every write operation of the Transaction the callback was given,
\* SetScope and SetACL included, either runs directly through the server or
\* is appended to the active transaction, and returns to the callback: each
\* operation the callback invoked made one server call or one AppendRequest,
\* and no operation ends the call by a panic.
C21_EveryWriteReturns ==
    /\ txnPc # "panic"
    /\ Len(writeLog) = Len(appendLog) + Len(directLog)

(***************************************************************************)
(* The base-case protocol of shardedCompact.                               *)
(***************************************************************************)
\* The root call is itself the base case: the call counters are then those
\* of its one shardedCompact call.
BaseRun == IsBaseCase(Len(dcIds), maxFanIn)

\* The invocation on top of the stack, after the step.
TopAfter == stack'[Len(stack')]

\* C22 as stated: one shardedCompact call invokes Shard, then workerFunc
\* exactly once, then Concat at most once.
C22_WorkerExactlyOnce ==
    (BaseRun /\ DCTerminated) =>
        /\ shardCalls = 1
        /\ workerCalls = 1
        /\ concatCalls <= 1

\* C22: one shardedCompact call invokes Shard once, then workerFunc at most
\* once (exactly once when Shard succeeded, never when it failed), then
\* Concat at most once (only when workerFunc succeeded with as many results
\* as tasks), in that order.  The batch holds exactly one CompactionTask
\* per path range visited, in visit order, each with the full id list of
\* the call and its own range; the batch handed to workerFunc is that
\* batch; Concat receives the list workerFunc returned, unchanged.
C22_BaseCaseProtocol ==
    /\ [](BaseRun =>
            /\ shardCalls <= 1
            /\ workerCalls <= shardCalls
            /\ concatCalls <= workerCalls
            /\ (DCTerminated /\ dcResult.err = "shard") => workerCalls = 0
            /\ (DCTerminated /\ dcResult.err # "shard") =>
                  (shardCalls = 1 /\ workerCalls = 1)
            /\ (DCTerminated /\ dcResult.err \in {"worker", "mismatch"}) =>
                  concatCalls = 0
            /\ (DCTerminated /\ dcResult.err \in {"", "concat"}) =>
                  concatCalls = 1)
    /\ [][ (stack # <<>> /\ Top.pc \in {"shard", "work", "check"}) =>
             /\ Len(stack') = Len(stack)
             /\ TopAfter.ids = Top.ids
             /\ Top.pc = "shard" =>
                   /\ shardCalls' = shardCalls + 1
                   /\ workerCalls' = workerCalls
                   /\ concatCalls' = concatCalls
                   /\ \/ /\ TopAfter.pc = "work"
                         /\ TopAfter.tasks =
                              [k \in 1..Len(lastRanges') |->
                                 [Inputs |-> Top.ids, PathRange |-> lastRanges'[k]]]
                      \/ /\ TopAfter.pc = "ret"
                         /\ TopAfter.err = "shard"
             /\ Top.pc = "work" =>
                   /\ shardCalls' = shardCalls
                   /\ workerCalls' = workerCalls + 1
                   /\ concatCalls' = concatCalls
                   /\ lastBatch' = Top.tasks
                   /\ \/ TopAfter.pc = "check"
                      \/ TopAfter.pc = "ret" /\ TopAfter.err = "worker"
             /\ Top.pc = "check" =>
                   /\ shardCalls' = shardCalls
                   /\ workerCalls' = workerCalls
                   /\ TopAfter.pc = "ret"
                   /\ \/ /\ concatCalls' = concatCalls
                         /\ TopAfter.err = "mismatch"
                         /\ Len(Top.wres) # Len(Top.tasks)
                      \/ /\ concatCalls' = concatCalls + 1
                         /\ concatArg' = Top.wres
                         /\ Len(Top.wres) = Len(Top.tasks)
                         /\ TopAfter.err \in {"", "concat"}
       ]_vars

\* A base-case call returned after Concat was handed two or more results.
C22_Witness ==
    /\ BaseRun
    /\ DCTerminated
    /\ dcResult.err = ""
    /\ Len(dcIds) >= 2
    /\ Len(concatArg) >= 2
    /\ Len(lastBatch) = Len(concatArg)
    /\ shardCalls = 1 /\ workerCalls = 1 /\ concatCalls = 1

\* A base-case call returned Shard's failure: workerFunc was never invoked.
C22_WitnessShardFails ==
    /\ BaseRun
    /\ DCTerminated
    /\ dcResult.err = "shard"
    /\ shardCalls = 1
    /\ workerCalls = 0

\* C23: deferred PFS tasks.  With no active transaction, pfsDefer.Run is
\* called once per execution of the STM callback in which the caller's
\* callback returned nil, after that callback returned (the step that runs
\* it leaves the callback, and no write follows it in that execution), and
\* never in an execution in which the callback returned an error: that
\* error is then what WithTransaction returns.  With an active transaction,
\* or when the transaction cannot be read, Run is never called.
C23_DeferredRun ==
    /\ [](/\ ctxTxn # NilTxn => deferRuns = 0
          /\ txnMode # "direct" => deferRuns = 0
          /\ txnMode = "direct" =>
                /\ txnPc = "cb" => deferRuns = cbRuns - 1
                /\ txnPc = "commit" => deferRuns = cbRuns
                /\ (txnPc = "done" /\ txnErr = "callback") => deferRuns = cbRuns - 1
                /\ (txnPc = "done" /\ txnErr # "callback") => deferRuns = cbRuns)
    /\ [][ /\ deferRuns' # deferRuns =>
                /\ deferRuns' = deferRuns + 1
                /\ txnPc = "cb"
                /\ txnPc' \in {"commit", "done"}
                /\ writeLog' = writeLog
                /\ txnPc' = "done" => txnErr' = "run"
           /\ (txnMode = "direct" /\ txnPc = "cb" /\ txnPc' = "done"
                  /\ deferRuns' = deferRuns) => txnErr' = "callback"
      ]_vars

\* The STM ran its callback twice; the caller's callback returned nil both
\* times and the deferred tasks were run twice.
C23_Witness ==
    /\ txnPc = "done"
    /\ txnMode = "direct"
    /\ txnErr = ""
    /\ cbRuns = 2
    /\ deferRuns = 2

\* The callback returned an error in the second execution: the deferred
\* tasks were run once, for the first.
C23_WitnessCallbackFails ==
    /\ txnPc = "done"
    /\ txnMode = "direct"
    /\ txnErr = "callback"
    /\ cbRuns = 2
    /\ deferRuns = 1

\* A call under an active transaction returned: nothing was run.
C23_WitnessAppend ==
    /\ txnPc = "done"
    /\ txnMode = "append"
    /\ Len(appendLog) >= 1
    /\ deferRuns = 0
====
